---- MODULE Spec2Model ----
(***************************************************************************)
(* Model of src/src/main.rs: the exhaustive count of the signatures of    *)
(* vanilla and z-trick Dilithium-with-aborts.                              *)
(***************************************************************************)
EXTENDS Integers, Sequences, FiniteSets, TLC

VARIABLES
    beta,             \* const BETA of the run
    gamma1,           \* const GAMMA1 of the run
    pc,               \* position of the modelled routine
    variant,          \* "vanilla" or "ztrick": which evaluator is running
    y,                \* <<y1, y2, y1p, y2p>>: the evaluator's arguments
    only_iterations,  \* Option<i32>: <<>> is None, <<n>> is Some(n)
    idx,              \* position of the running for loop in its iproduct
    zc,               \* the evaluator's BTreeMap (local, then returned)
    trial,            \* <<>>, or <<t>> with t what the last loop body did
    vanilla_results,  \* main's vanilla_results
    ztrick_results,   \* main's ztrick_results
    verdict,          \* <<>>, or the two values main gets from is_uniform
    todo,             \* masking tuples not yet accumulated (split run)
    partA,            \* first partial mapping of a split run
    partB,            \* second partial mapping of a split run
    merged,           \* <<>>, or <<m>> with m the two partial mappings merged
    items,            \* the (key, value) pairs is_uniform's iterator yields
    pos,              \* how many items iter.next() has handed out
    baseline,         \* <<>>, or <<v>> with v is_uniform's baseline
    ret               \* <<>>, or <<r>> with r the value is_uniform returned

evalVars  == <<variant, y, only_iterations, trial>>
mainVars  == <<vanilla_results, ztrick_results, verdict>>
splitVars == <<todo, partA, partB, merged>>
unifVars  == <<items, pos, baseline, ret>>

vars == <<beta, gamma1, pc, idx, zc, evalVars, mainVars, splitVars, unifVars>>

\* ------------------------------------------------------------ constants

BETA == 3
GAMMA1 == 9

\* ORD_B, ORD_B_SQ and ORD_Y of a parameter set.
ORD_B(b) == 2 * b + 1
ORD_B_SQ(b) == ORD_B(b) * ORD_B(b)
ORD_Y(g) == 2 * g

\* ------------------------------------------------------------ BigUint
\* num::BigUint: a natural number of any size, held as its digits in base
\* BigBase, least significant first, without leading zeros (zero is <<>>).

BigBase == 10000

BigZero == <<>>

RECURSIVE BigFromNat(_)
BigFromNat(n) == IF n = 0 THEN <<>> ELSE <<n % BigBase>> \o BigFromNat(n \div BigBase)

RECURSIVE BigAddC(_, _, _)
BigAddC(a, b, carry) ==
    IF a = <<>> /\ b = <<>>
    THEN IF carry = 0 THEN <<>> ELSE <<carry>>
    ELSE LET da == IF a = <<>> THEN 0 ELSE Head(a)
             db == IF b = <<>> THEN 0 ELSE Head(b)
             s  == da + db + carry
         IN  <<s % BigBase>> \o BigAddC(IF a = <<>> THEN <<>> ELSE Tail(a),
                                        IF b = <<>> THEN <<>> ELSE Tail(b),
                                        s \div BigBase)

BigAdd(a, b) == BigAddC(a, b, 0)

RECURSIVE BigMulC(_, _, _)
BigMulC(a, m, carry) ==
    IF a = <<>>
    THEN BigFromNat(carry)
    ELSE LET s == Head(a) * m + carry
         IN  <<s % BigBase>> \o BigMulC(Tail(a), m, s \div BigBase)

BigMulSmall(a, m) == IF m = 0 THEN <<>> ELSE BigMulC(a, m, 0)

RECURSIVE BigPow(_, _)
BigPow(base, e) == IF e = 0 THEN <<1>> ELSE BigMulSmall(BigPow(base, e - 1), base)

\* ------------------------------------------------------------ CounterMap
\* type CounterMap = BTreeMap<(i32, i32, i32, i32), BigUint>: a function from
\* the keys present to their counts.

EmptyMap == <<>>

\* zc.entry(k).or_default() followed by *counter += v.
count_signature(map, k, v) ==
    IF k \in DOMAIN map
    THEN [map EXCEPT ![k] = BigAdd(@, v)]
    ELSE (k :> BigAdd(BigZero, v)) @@ map

\* ------------------------------------------------------------ evaluators

Abs(z) == IF z < 0 THEN -z ELSE z

\* The bound test with <= for <.
z_is_in_bounds_inclusive(z, b, g) == Abs(z) <= g - b

z_is_in_bounds(z, b, g) == Abs(z) < g - b

\* The asserts with the interval closed at its lower end.
ArgsInRangeClosed(yy, g) == \A i \in 1..4 : -g <= yy[i] /\ yy[i] <= g

\* The four assert!s that open both evaluators.
ArgsInRange(yy, g) == \A i \in 1..4 : -g < yy[i] /\ yy[i] <= g

\* itertools::iproduct!(-BETA..=BETA, x4): the i-th item (from 0), the last
\* component varying fastest.
NumChallenges(b) == ORD_B(b) * ORD_B(b) * ORD_B(b) * ORD_B(b)

ChallengeAt(i, b) ==
    LET n == ORD_B(b)
    IN  << (i \div (n * n * n)) - b,
           ((i \div (n * n)) % n) - b,
           ((i \div n) % n) - b,
           (i % n) - b >>

\* A z-trick whose z1-failed branch resamples both coordinates, as vanilla does.
ZtrickAttemptResampleBoth(b, g, yy, cc) ==
    LET y1 == yy[1]  y2 == yy[2]  y1p == yy[3]  y2p == yy[4]
        c1 == cc[1]  c2 == cc[2]  cp1 == cc[3]  cp2 == cc[4]
    IN  IF ~z_is_in_bounds(y1 + c1, b, g)
        THEN [iteration |-> 2, c_used |-> <<cp1, cp2>>,
              z1 |-> y1p + cp1, z2 |-> y2p + cp2,
              path |-> "z1_failed", added |-> <<y1p, cp1, y2p, cp2>>]
        ELSE IF ~z_is_in_bounds(y2 + c2, b, g)
        THEN [iteration |-> 2, c_used |-> <<c1, c2>>,
              z1 |-> y1p + cp1, z2 |-> y2p + cp2,
              path |-> "z2_failed", added |-> <<y1p, cp1, y2p, cp2>>]
        ELSE [iteration |-> 1, c_used |-> <<c1, c2>>,
              z1 |-> y1 + c1, z2 |-> y2 + c2,
              path |-> "first", added |-> <<y1, c1, y2, c2>>]

\* One attempt sequence of dilithium_ztrick: the responses, the challenge that
\* goes into the key, the iteration counter, and (path, added) recording which
\* branch ran and which <<ya, ca, yb, cb>> were summed into z1 and z2.
ZtrickAttempt(b, g, yy, cc) ==
    LET y1 == yy[1]  y2 == yy[2]  y1p == yy[3]  y2p == yy[4]
        c1 == cc[1]  c2 == cc[2]  cp1 == cc[3]  cp2 == cc[4]
    IN  IF ~z_is_in_bounds(y1 + c1, b, g)
        THEN [iteration |-> 2, c_used |-> <<cp1, cp2>>,
              z1 |-> y1p + cp1, z2 |-> y2 + cp2,
              path |-> "z1_failed", added |-> <<y1p, cp1, y2, cp2>>]
        ELSE IF ~z_is_in_bounds(y2 + c2, b, g)
        THEN [iteration |-> 2, c_used |-> <<c1, c2>>,
              z1 |-> y1p + cp1, z2 |-> y2p + cp2,
              path |-> "z2_failed", added |-> <<y1p, cp1, y2p, cp2>>]
        ELSE [iteration |-> 1, c_used |-> <<c1, c2>>,
              z1 |-> y1 + c1, z2 |-> y2 + c2,
              path |-> "first", added |-> <<y1, c1, y2, c2>>]

\* One attempt sequence of dilithium_vanilla.
VanillaAttempt(b, g, yy, cc) ==
    LET y1 == yy[1]  y2 == yy[2]  y1p == yy[3]  y2p == yy[4]
        c1 == cc[1]  c2 == cc[2]  cp1 == cc[3]  cp2 == cc[4]
    IN  IF ~z_is_in_bounds(y1 + c1, b, g) \/ ~z_is_in_bounds(y2 + c2, b, g)
        THEN [iteration |-> 2, c_used |-> <<cp1, cp2>>,
              z1 |-> y1p + cp1, z2 |-> y2p + cp2,
              path |-> IF ~z_is_in_bounds(y1 + c1, b, g) THEN "z1_failed" ELSE "z2_failed",
              added |-> <<y1p, cp1, y2p, cp2>>]
        ELSE [iteration |-> 1, c_used |-> <<c1, c2>>,
              z1 |-> y1 + c1, z2 |-> y2 + c2,
              path |-> "first", added |-> <<y1, c1, y2, c2>>]

\* The if / else if chain that ends both loop bodies: 1, 2, 3, or 0 for the
\* unreachable!() arm.
RoCase(yy, cc) ==
    LET ys  == <<yy[1], yy[2]>>   yps == <<yy[3], yy[4]>>
        c   == <<cc[1], cc[2]>>   cp  == <<cc[3], cc[4]>>
    IN  IF ys # yps THEN 1
        ELSE IF ys = yps /\ c = cp THEN 2
        ELSE IF ys = yps /\ c # cp THEN 3
        ELSE 0

\* The weights with ORD_B for ORD_B_SQ as the base.
CaseWeightBaseOrdB(case, b, g) ==
    IF case = 1 THEN BigPow(ORD_B(b), ORD_Y(g) - 2)
                ELSE BigPow(ORD_B(b), ORD_Y(g) - 1)

\* ORD_B_SQ.to_biguint().unwrap().pow(programmed) of Case 1 and Case 2.
CaseWeight(case, b, g) ==
    IF case = 1 THEN BigPow(ORD_B_SQ(b), ORD_Y(g) - 2)
                ELSE BigPow(ORD_B_SQ(b), ORD_Y(g) - 1)

\* Some(it) with iteration != it skips the trial.
PassesFilter(only, iteration) == only = <<>> \/ iteration = only[1]

\* One pass through the for loop's body.
LoopBody(var, b, g, yy, only, cc) ==
    LET a        == IF var = "vanilla" THEN VanillaAttempt(b, g, yy, cc)
                                       ELSE ZtrickAttempt(b, g, yy, cc)
        accepted == z_is_in_bounds(a.z1, b, g) /\ z_is_in_bounds(a.z2, b, g)
        passes   == accepted /\ PassesFilter(only, a.iteration)
        case     == RoCase(yy, cc)
    IN  [cc |-> cc, iteration |-> a.iteration, path |-> a.path, added |-> a.added,
         key |-> <<a.z1, a.z2, a.c_used[1], a.c_used[2]>>,
         accepted |-> accepted, passes |-> passes, case |-> case,
         counted |-> passes /\ case \in {1, 2},
         unreachable |-> passes /\ case = 0]

\* The loop body's effect on zc.
Count(map, t, b, g) ==
    IF t.counted THEN count_signature(map, t.key, CaseWeight(t.case, b, g)) ELSE map

\* The for loop over items lo .. hi-1 of the iproduct, in order, from map.
RECURSIVE RunLoop(_, _, _, _, _, _, _, _)
RunLoop(var, b, g, yy, only, lo, hi, map) ==
    IF lo >= hi THEN map
    ELSE IF hi = lo + 1
    THEN Count(map, LoopBody(var, b, g, yy, only, ChallengeAt(lo, b)), b, g)
    ELSE LET mid   == (lo + hi) \div 2
             first == RunLoop(var, b, g, yy, only, lo, mid, map)
         IN  \* the test has the first half computed before the second starts
             IF DOMAIN first = {}
             THEN RunLoop(var, b, g, yy, only, mid, hi, EmptyMap)
             ELSE RunLoop(var, b, g, yy, only, mid, hi, first)

\* The mapping a call returns (its arguments in range).
dilithium_vanilla(b, g, yy, only) == RunLoop("vanilla", b, g, yy, only, 0, NumChallenges(b), EmptyMap)
dilithium_ztrick(b, g, yy, only) == RunLoop("ztrick", b, g, yy, only, 0, NumChallenges(b), EmptyMap)

\* ------------------------------------------------------------ driver helpers

\* A merge that inserts the other mapping's value instead of adding it.
merge_results_insert(map, other) ==
    [k \in DOMAIN map \cup DOMAIN other |->
        IF k \in DOMAIN other THEN other[k] ELSE map[k]]

merge_results(map, other) ==
    [k \in DOMAIN map \cup DOMAIN other |->
        IF k \in DOMAIN other
        THEN BigAdd(IF k \in DOMAIN map THEN map[k] ELSE BigZero, other[k])
        ELSE map[k]]

\* The order in which a BTreeMap iterates its keys.
KeyLess(k, j) ==
    \E i \in 1..4 : k[i] < j[i] /\ \A h \in 1..(i - 1) : k[h] = j[h]

SortedKeys(S) ==
    LET rank == [k \in S |-> Cardinality({j \in S : KeyLess(j, k)})]
    IN  [i \in 1..Cardinality(S) |-> CHOOSE k \in S : rank[k] = i - 1]

\* map.iter(): the (key, value) pairs in key order.
MapIter(map) ==
    LET ks == SortedKeys(DOMAIN map)
    IN  [i \in 1..Len(ks) |-> <<ks[i], map[ks[i]]>>]

\* is_uniform on the sequence an iterator yields: true when the iterator is
\* empty, false when some later item's value differs from the first item's.
is_uniform(iter) ==
    IF iter = <<>> THEN TRUE
    ELSE ~\E i \in 2..Len(iter) : iter[i][2] # iter[1][2]

\* The (y1, y2, y1p, y2p) of main's iproduct!, in order, from index 0.
NumTuples(g) == ORD_Y(g) * ORD_Y(g) * ORD_Y(g) * ORD_Y(g)

TupleAt(i, g) ==
    LET n == ORD_Y(g)
    IN  << (i \div (n * n * n)) - g + 1,
           ((i \div (n * n)) % n) - g + 1,
           ((i \div n) % n) - g + 1,
           (i % n) - g + 1 >>

\* ------------------------------------------------------------ one evaluator call
\* Spec: a call of dilithium_vanilla or dilithium_ztrick with any arguments,
\* its for loop taken one pass at a time.

\* The parameter sets of the calls: a malformed one (GAMMA1 <= BETA), the
\* smallest well-formed one, and the source's.
ParamSets == {<<1, 1>>, <<1, 2>>, <<BETA, GAMMA1>>}

\* The values each argument is drawn from: every value of the interval and one
\* beyond each end when the interval is small, else a value always in bounds, a
\* value in bounds for some challenges only, and one beyond the interval.
ArgValues(b, g) == IF g <= 2 THEN (-g)..(g + 1) ELSE {0, g - b, g + 1}

Unused == <<>>

EvalUnused  == variant = Unused /\ y = Unused /\ only_iterations = Unused /\ trial = Unused
MainUnused  == vanilla_results = Unused /\ ztrick_results = Unused /\ verdict = Unused
SplitUnused == todo = Unused /\ partA = Unused /\ partB = Unused /\ merged = Unused
UnifUnused  == items = Unused /\ pos = Unused /\ baseline = Unused /\ ret = Unused

EvalInit ==
    /\ \E p \in ParamSets : beta = p[1] /\ gamma1 = p[2]
    /\ variant \in {"vanilla", "ztrick"}
    /\ y \in ArgValues(beta, gamma1) \X ArgValues(beta, gamma1)
             \X ArgValues(beta, gamma1) \X ArgValues(beta, gamma1)
    /\ only_iterations \in {<<>>, <<1>>, <<2>>}
    /\ pc = "call"
    /\ idx = 0
    /\ zc = EmptyMap
    /\ trial = <<>>
    /\ MainUnused /\ SplitUnused /\ UnifUnused

\* The assert!s: a failed one panics, else the loop starts on an empty zc.
Enter ==
    /\ pc = "call"
    /\ pc' = IF ArgsInRange(y, gamma1) THEN "loop" ELSE "panicked"
    /\ UNCHANGED <<beta, gamma1, idx, zc, evalVars, mainVars, splitVars, unifVars>>

\* One pass through the loop body.
LoopStep ==
    /\ pc = "loop"
    /\ idx < NumChallenges(beta)
    /\ LET t == LoopBody(variant, beta, gamma1, y, only_iterations,
                         ChallengeAt(idx, beta))
       IN  /\ trial' = <<t>>
           /\ zc' = Count(zc, t, beta, gamma1)
           /\ pc' = IF t.unreachable THEN "panicked" ELSE "loop"
    /\ idx' = idx + 1
    /\ UNCHANGED <<beta, gamma1, variant, y, only_iterations, mainVars, splitVars, unifVars>>

\* The iproduct is exhausted: zc is returned.
Return ==
    /\ pc = "loop"
    /\ idx = NumChallenges(beta)
    /\ pc' = "returned"
    /\ UNCHANGED <<beta, gamma1, idx, zc, evalVars, mainVars, splitVars, unifVars>>

Next == Enter \/ LoopStep \/ Return

Spec == EvalInit /\ [][Next]_vars

\* ------------------------------------------------------------ main
\* SpecMain: main, one pass of its for loops at a time, then the two calls of
\* is_uniform and the printing loop.

\* The parameter sets of the runs: a malformed one (GAMMA1 <= BETA) and two
\* well-formed ones.
MainParamSets == {<<1, 1>>, <<1, 2>>, <<1, 3>>}

MainInit ==
    /\ \E p \in MainParamSets : beta = p[1] /\ gamma1 = p[2]
    /\ pc = "vanilla_loop"
    /\ idx = 0
    /\ zc = EmptyMap
    /\ vanilla_results = EmptyMap
    /\ ztrick_results = EmptyMap
    /\ verdict = <<>>
    /\ EvalUnused /\ SplitUnused /\ UnifUnused

\* merge_results(&mut vanilla_results, &dilithium_vanilla(y1, y2, y1p, y2p, None))
MainVanilla ==
    /\ pc = "vanilla_loop"
    /\ idx < NumTuples(gamma1)
    /\ IF ArgsInRange(TupleAt(idx, gamma1), gamma1)
       THEN /\ zc' = dilithium_vanilla(beta, gamma1, TupleAt(idx, gamma1), <<>>)
            /\ vanilla_results' = merge_results(vanilla_results, zc')
            /\ pc' = pc
       ELSE /\ pc' = "panicked"
            /\ UNCHANGED <<zc, vanilla_results>>
    /\ idx' = idx + 1
    /\ UNCHANGED <<beta, gamma1, ztrick_results, verdict, evalVars, splitVars, unifVars>>

MainVanillaEnd ==
    /\ pc = "vanilla_loop"
    /\ idx = NumTuples(gamma1)
    /\ pc' = "ztrick_loop"
    /\ idx' = 0
    /\ UNCHANGED <<beta, gamma1, zc, mainVars, evalVars, splitVars, unifVars>>

\* merge_results(&mut ztrick_results, &dilithium_ztrick(y1, y2, y1p, y2p, None))
MainZtrick ==
    /\ pc = "ztrick_loop"
    /\ idx < NumTuples(gamma1)
    /\ IF ArgsInRange(TupleAt(idx, gamma1), gamma1)
       THEN /\ zc' = dilithium_ztrick(beta, gamma1, TupleAt(idx, gamma1), <<>>)
            /\ ztrick_results' = merge_results(ztrick_results, zc')
            /\ pc' = pc
       ELSE /\ pc' = "panicked"
            /\ UNCHANGED <<zc, ztrick_results>>
    /\ idx' = idx + 1
    /\ UNCHANGED <<beta, gamma1, vanilla_results, verdict, evalVars, splitVars, unifVars>>

MainZtrickEnd ==
    /\ pc = "ztrick_loop"
    /\ idx = NumTuples(gamma1)
    /\ pc' = "check"
    /\ UNCHANGED <<beta, gamma1, idx, zc, mainVars, evalVars, splitVars, unifVars>>

\* dbg!(is_uniform(&mut vanilla_results.iter())) and the same for ztrick_results.
MainCheck ==
    /\ pc = "check"
    /\ verdict' = << is_uniform(MapIter(vanilla_results)),
                    is_uniform(MapIter(ztrick_results)) >>
    /\ pc' = "print"
    /\ UNCHANGED <<beta, gamma1, idx, zc, vanilla_results, ztrick_results,
                   evalVars, splitVars, unifVars>>

\* The printing loop: for each key of vanilla_results, get(k).unwrap() on both
\* mappings; unwrap panics on a key ztrick_results lacks.
MainPrint ==
    /\ pc = "print"
    /\ pc' = IF \A k \in DOMAIN vanilla_results : k \in DOMAIN ztrick_results
             THEN "done" ELSE "panicked"
    /\ UNCHANGED <<beta, gamma1, idx, zc, mainVars, evalVars, splitVars, unifVars>>

MainNext ==
    \/ MainVanilla \/ MainVanillaEnd \/ MainZtrick \/ MainZtrickEnd
    \/ MainCheck \/ MainPrint

SpecMain == MainInit /\ [][MainNext]_vars

\* ------------------------------------------------------------ a split run
\* SpecSplit: the accumulation of main distributed over two partial mappings.
\* Each masking tuple, in any order, is evaluated and merged into one of the
\* two; when none is left the second is merged into the first.

MaxTuples == 5

SplitParamSets == {<<1, 2>>, <<1, 3>>}

\* The indices, in main's iproduct, of the masking tuples of a split run.
SampleIndices(g) == {(j * 37) % NumTuples(g) : j \in 0..(MaxTuples - 1)}

Evaluate(var, b, g, yy) ==
    IF var = "vanilla" THEN dilithium_vanilla(b, g, yy, <<>>)
                       ELSE dilithium_ztrick(b, g, yy, <<>>)

\* main's for loop over the tuples with indices in S, in increasing order,
\* merging into map.
RECURSIVE Accumulate(_, _, _, _, _)
Accumulate(var, b, g, S, map) ==
    IF S = {} THEN map
    ELSE LET i == CHOOSE j \in S : \A h \in S : j <= h
         IN  Accumulate(var, b, g, S \ {i},
                        merge_results(map, Evaluate(var, b, g, TupleAt(i, g))))

SplitInit ==
    /\ \E p \in SplitParamSets : beta = p[1] /\ gamma1 = p[2]
    /\ variant \in {"vanilla", "ztrick"}
    /\ pc = "split"
    /\ todo = SampleIndices(gamma1)
    /\ partA = EmptyMap
    /\ partB = EmptyMap
    /\ merged = <<>>
    /\ idx = 0
    /\ zc = EmptyMap
    /\ y = Unused /\ only_iterations = Unused /\ trial = Unused
    /\ MainUnused /\ UnifUnused

SplitTakeA ==
    /\ pc = "split"
    /\ \E i \in todo :
        /\ zc' = Evaluate(variant, beta, gamma1, TupleAt(i, gamma1))
        /\ partA' = merge_results(partA, zc')
        /\ todo' = todo \ {i}
    /\ UNCHANGED <<beta, gamma1, pc, idx, partB, merged, evalVars, mainVars, unifVars>>

SplitTakeB ==
    /\ pc = "split"
    /\ \E i \in todo :
        /\ zc' = Evaluate(variant, beta, gamma1, TupleAt(i, gamma1))
        /\ partB' = merge_results(partB, zc')
        /\ todo' = todo \ {i}
    /\ UNCHANGED <<beta, gamma1, pc, idx, partA, merged, evalVars, mainVars, unifVars>>

SplitMerge ==
    /\ pc = "split"
    /\ todo = {}
    /\ merged' = <<merge_results(partA, partB)>>
    /\ pc' = "merged"
    /\ UNCHANGED <<beta, gamma1, idx, zc, todo, partA, partB, evalVars, mainVars, unifVars>>

SplitNext == SplitTakeA \/ SplitTakeB \/ SplitMerge

SpecSplit == SplitInit /\ [][SplitNext]_vars

\* ------------------------------------------------------------ is_uniform
\* SpecUniform: is_uniform on any short iterator, one iter.next() at a time.

MaxLen == 4
MaxValue == 2

UniformInit ==
    /\ \E n \in 0..MaxLen : \E f \in [1..n -> 0..MaxValue] :
          items = [i \in 1..n |-> <<i, BigFromNat(f[i])>>]
    /\ pc = "uniform_start"
    /\ pos = 0
    /\ baseline = <<>>
    /\ ret = <<>>
    /\ beta = Unused /\ gamma1 = Unused /\ idx = Unused /\ zc = Unused
    /\ EvalUnused /\ MainUnused /\ SplitUnused

\* let (_, baseline) = if let Some(item) = iter.next() { item } else { return true };
UniformFirst ==
    /\ pc = "uniform_start"
    /\ IF pos < Len(items)
       THEN /\ pos' = pos + 1
            /\ baseline' = <<items[pos + 1][2]>>
            /\ pc' = "uniform_loop"
            /\ ret' = ret
       ELSE /\ ret' = <<TRUE>>
            /\ pc' = "uniform_done"
            /\ UNCHANGED <<pos, baseline>>
    /\ UNCHANGED <<beta, gamma1, idx, zc, items, evalVars, mainVars, splitVars>>

\* A loop that stops one item short of the iterator's end.
UniformNextStopsShort ==
    /\ pc = "uniform_loop"
    /\ IF pos + 1 < Len(items)
       THEN /\ pos' = pos + 1
            /\ IF items[pos + 1][2] # baseline[1]
               THEN ret' = <<FALSE>> /\ pc' = "uniform_done"
               ELSE ret' = ret /\ pc' = pc
       ELSE /\ ret' = <<TRUE>>
            /\ pc' = "uniform_done"
            /\ pos' = pos
    /\ UNCHANGED <<beta, gamma1, idx, zc, items, baseline, evalVars, mainVars, splitVars>>

\* One evaluation of the while let: the next item compared with the baseline,
\* or, the iterator being exhausted, the final true.
UniformNext ==
    /\ pc = "uniform_loop"
    /\ IF pos < Len(items)
       THEN /\ pos' = pos + 1
            /\ IF items[pos + 1][2] # baseline[1]
               THEN ret' = <<FALSE>> /\ pc' = "uniform_done"
               ELSE ret' = ret /\ pc' = pc
       ELSE /\ ret' = <<TRUE>>
            /\ pc' = "uniform_done"
            /\ pos' = pos
    /\ UNCHANGED <<beta, gamma1, idx, zc, items, baseline, evalVars, mainVars, splitVars>>

UniformStep == UniformFirst \/ UniformNext

SpecUniform == UniformInit /\ [][UniformStep]_vars

\* ------------------------------------------------------------ properties

\* The loop body last executed.
T == trial[1]

\* C3: every counted trial's key holds the challenge pair that was added to
\* the masking values to give the key's responses: for the key (z1, z2, ca, cb)
\* and the <<ya, c, yb, c'>> summed into z1 and z2, ca = c, cb = c',
\* z1 = ya + ca and z2 = yb + cb.
C3_KeyHoldsChallengeUsed ==
    (trial # <<>> /\ T.counted) =>
        /\ T.key[3] = T.added[2]
        /\ T.key[4] = T.added[4]
        /\ T.key[1] = T.added[1] + T.key[3]
        /\ T.key[2] = T.added[3] + T.key[4]

\* C4 (as claimed): in dilithium_ztrick, when y1 + c1 is out of bounds, the
\* accepted output has z2 = y2 + c2.
C4_Z2KeepsOriginalChallenge ==
    (trial # <<>> /\ variant = "ztrick" /\ T.accepted
        /\ Abs(y[1] + T.cc[1]) >= gamma1 - beta)
    => T.key[2] = y[2] + T.cc[2]

\* C4 (amended): in dilithium_ztrick, when y1 + c1 is out of bounds, the
\* accepted output has z1 = y1p + cp1 and z2 = y2 + cp2: z2 keeps the original
\* y2 and takes the second challenge's component, and the key holds (cp1, cp2).
C4_Z2KeepsOriginalMask ==
    (trial # <<>> /\ variant = "ztrick" /\ T.accepted
        /\ Abs(y[1] + T.cc[1]) >= gamma1 - beta)
    => /\ T.key[1] = y[3] + T.cc[3]
       /\ T.key[2] = y[2] + T.cc[4]
       /\ T.key[3] = T.cc[3]
       /\ T.key[4] = T.cc[4]

C4_Witness ==
    /\ trial # <<>> /\ variant = "ztrick" /\ T.counted
    /\ Abs(y[1] + T.cc[1]) >= gamma1 - beta
    /\ y[2] # y[4]
    /\ T.cc[2] # T.cc[4]

C6_CollidingInputsNeverCounted ==
    (trial # <<>> /\ variant = "ztrick" /\ y[1] = y[3]
        /\ <<T.cc[1], T.cc[2]>> # <<T.cc[3], T.cc[4]>>)
    => ~T.counted

C7_IsUniform ==
    pc = "uniform_done" =>
        /\ items = <<>> => ret = <<TRUE>>
        /\ items # <<>> =>
              ret = << \A i \in 1..Len(items) : items[i][2] = items[1][2] >>
        /\ ret = <<FALSE>> =>
              /\ items[pos][2] # items[1][2]
              /\ \A j \in 1..(pos - 1) : items[j][2] = items[1][2]
        /\ ret = <<TRUE>> => pos = Len(items)
        /\ ret = <<is_uniform(items)>>

C7_Witness ==
    /\ pc = "uniform_done"
    /\ ret = <<FALSE>>
    /\ pos > 2
    /\ pos < Len(items)

\* C8: when every tuple has been accumulated into one of the two partial
\* mappings, in whatever order and split, merging the two gives the mapping
\* main's loop builds over the same tuples, whichever of the two is merged
\* into the other.
C8_SplitAndMergeIsDirect ==
    pc = "merged" =>
        /\ merged[1] = Accumulate(variant, beta, gamma1, SampleIndices(gamma1), EmptyMap)
        /\ merge_results(partB, partA) = merged[1]

C8_Witness ==
    /\ pc = "merged"
    /\ DOMAIN partA \cap DOMAIN partB # {}
    /\ DOMAIN partA \ DOMAIN partB # {}
    /\ DOMAIN partB \ DOMAIN partA # {}

\* C10: every key (z1, z2, ca, cb) of the mapping an evaluator returned and of
\* the two merged mappings has |z1| < GAMMA1 - BETA, |z2| < GAMMA1 - BETA and
\* ca, cb in [-BETA, BETA].
C10_KeysInBounds ==
    \A map \in {zc, vanilla_results, ztrick_results} :
        \A k \in DOMAIN map :
            /\ Abs(k[1]) < gamma1 - beta
            /\ Abs(k[2]) < gamma1 - beta
            /\ k[3] \in (-beta)..beta
            /\ k[4] \in (-beta)..beta

C10_Witness ==
    /\ pc = "ztrick_loop"
    /\ gamma1 - beta > 1
    /\ \E k \in DOMAIN vanilla_results : Abs(k[1]) = gamma1 - beta - 1
    /\ \E k \in DOMAIN ztrick_results : Abs(k[2]) = gamma1 - beta - 1
    /\ \E k \in DOMAIN zc : Abs(k[1]) = gamma1 - beta - 1

====
